---- MODULE Spec2Model ----
(***************************************************************************)
(* Railway station navigation: route materialisation, the walking          *)
(* simulator (interval timer), the live-location adapter and the React     *)
(* effects that connect them (RailwayNavigation component).                *)
(*                                                                         *)
(* Numbers: distances are fixed-point centimetres (Math.sqrt is rounded    *)
(* down to a centimetre), latitudes/longitudes are in units of 1e-7        *)
(* degree.  Nullable values are options: None is null/undefined and        *)
(* Some(v) a present value.                                                *)
(***************************************************************************)
EXTENDS Integers, Sequences, FiniteSets, TLC

None == <<>>
Some(v) == <<v>>
Val(o) == o[1]

(***************************************************************************)
(* Static data: lib/station-data.ts                                        *)
(***************************************************************************)
STATION_CENTER_LAT == 286435000
STATION_CENTER_LNG == 772222000

\* 1 m north-south is 1/111000 degree = 90.09e-7 degree; 1 m east-west is
\* 1/(111000 * cos(28.6435 deg)) degree = 102.65e-7 degree.
getLatLngFromOffset(xOffset, yOffset) ==
  [lat |-> STATION_CENTER_LAT - ((yOffset * 9009) \div 100),
   lng |-> STATION_CENTER_LNG + ((xOffset * 10265) \div 100)]

rawStationPoints ==
  << [id |-> "gate-a", type |-> "gate", x |-> 50, y |-> 250],
     [id |-> "gate-b", type |-> "gate", x |-> 450, y |-> 250],
     [id |-> "platform-1", type |-> "platform", x |-> 250, y |-> 50],
     [id |-> "platform-2", type |-> "platform", x |-> 250, y |-> 100],
     [id |-> "platform-3", type |-> "platform", x |-> 250, y |-> 150],
     [id |-> "platform-4", type |-> "platform", x |-> 250, y |-> 200],
     [id |-> "waiting-hall", type |-> "poi", x |-> 150, y |-> 300],
     [id |-> "escalator-1", type |-> "poi", x |-> 200, y |-> 250],
     [id |-> "stairs-1", type |-> "poi", x |-> 300, y |-> 250],
     [id |-> "node-ga-1", type |-> "path_node", x |-> 70, y |-> 250],
     [id |-> "node-ga-2", type |-> "path_node", x |-> 100, y |-> 250],
     [id |-> "node-ga-wh-1", type |-> "path_node", x |-> 135, y |-> 290],
     [id |-> "node-wh-e1-1", type |-> "path_node", x |-> 175, y |-> 275],
     [id |-> "node-e1-p1-1", type |-> "path_node", x |-> 190, y |-> 210],
     [id |-> "node-e1-p1-2", type |-> "path_node", x |-> 230, y |-> 65],
     [id |-> "node-e1-p2-1", type |-> "path_node", x |-> 200, y |-> 175],
     [id |-> "node-e1-p2-2", type |-> "path_node", x |-> 225, y |-> 125],
     [id |-> "node-wh-s1-1", type |-> "path_node", x |-> 260, y |-> 290],
     [id |-> "node-s1-p3-1", type |-> "path_node", x |-> 310, y |-> 215],
     [id |-> "node-s1-p3-2", type |-> "path_node", x |-> 280, y |-> 165],
     [id |-> "node-s1-p4-1", type |-> "path_node", x |-> 300, y |-> 200],
     [id |-> "node-s1-p4-2", type |-> "path_node", x |-> 275, y |-> 225],
     [id |-> "node-gb-1", type |-> "path_node", x |-> 430, y |-> 250],
     [id |-> "node-gb-s1-1", type |-> "path_node", x |-> 350, y |-> 250] >>

paths ==
  "gate-a-platform-1" :> <<
       [id |-> "inst1", text |-> "Walk straight from Entry Gate A for 20 meters.", hindiText |-> "hi: Walk straight from Entry Gate A for 20 meters.",
        from |-> "gate-a", to |-> "node-ga-2", path_nodes |-> <<"node-ga-1">>, distance |-> 20],
       [id |-> "inst2", text |-> "Turn right towards Waiting Hall.", hindiText |-> "hi: Turn right towards Waiting Hall.",
        from |-> "node-ga-2", to |-> "waiting-hall", path_nodes |-> <<"node-ga-wh-1">>, distance |-> 30],
       [id |-> "inst3", text |-> "Walk straight towards Escalator 1.", hindiText |-> "hi: Walk straight towards Escalator 1.",
        from |-> "waiting-hall", to |-> "escalator-1", path_nodes |-> <<"node-wh-e1-1">>, distance |-> 40],
       [id |-> "inst4", text |-> "Use Escalator 1 to reach Platform 1.", hindiText |-> "hi: Use Escalator 1 to reach Platform 1.",
        from |-> "escalator-1", to |-> "platform-1", path_nodes |-> <<"node-e1-p1-1", "node-e1-p1-2">>, distance |-> 50] >>
  @@
  "gate-a-platform-2" :> <<
       [id |-> "inst1", text |-> "Walk straight from Entry Gate A for 20 meters.", hindiText |-> "hi: Walk straight from Entry Gate A for 20 meters.",
        from |-> "gate-a", to |-> "node-ga-2", path_nodes |-> <<"node-ga-1">>, distance |-> 20],
       [id |-> "inst2", text |-> "Turn right towards Waiting Hall.", hindiText |-> "hi: Turn right towards Waiting Hall.",
        from |-> "node-ga-2", to |-> "waiting-hall", path_nodes |-> <<"node-ga-wh-1">>, distance |-> 30],
       [id |-> "inst3", text |-> "Walk straight towards Escalator 1.", hindiText |-> "hi: Walk straight towards Escalator 1.",
        from |-> "waiting-hall", to |-> "escalator-1", path_nodes |-> <<"node-wh-e1-1">>, distance |-> 40],
       [id |-> "inst4", text |-> "Use Escalator 1 to reach Platform 2.", hindiText |-> "hi: Use Escalator 1 to reach Platform 2.",
        from |-> "escalator-1", to |-> "platform-2", path_nodes |-> <<"node-e1-p2-1", "node-e1-p2-2">>, distance |-> 50] >>
  @@
  "gate-a-platform-3" :> <<
       [id |-> "inst1", text |-> "Walk straight from Entry Gate A for 20 meters.", hindiText |-> "hi: Walk straight from Entry Gate A for 20 meters.",
        from |-> "gate-a", to |-> "node-ga-2", path_nodes |-> <<"node-ga-1">>, distance |-> 20],
       [id |-> "inst2", text |-> "Turn right towards Waiting Hall.", hindiText |-> "hi: Turn right towards Waiting Hall.",
        from |-> "node-ga-2", to |-> "waiting-hall", path_nodes |-> <<"node-ga-wh-1">>, distance |-> 30],
       [id |-> "inst3", text |-> "Walk past Escalator 1 and turn right towards Stairs 1.", hindiText |-> "hi: Walk past Escalator 1 and turn right towards Stairs 1.",
        from |-> "waiting-hall", to |-> "stairs-1", path_nodes |-> <<"node-wh-s1-1">>, distance |-> 40],
       [id |-> "inst4", text |-> "Use Stairs 1 to reach Platform 3.", hindiText |-> "hi: Use Stairs 1 to reach Platform 3.",
        from |-> "stairs-1", to |-> "platform-3", path_nodes |-> <<"node-s1-p3-1", "node-s1-p3-2">>, distance |-> 50] >>
  @@
  "gate-a-platform-4" :> <<
       [id |-> "inst1", text |-> "Walk straight from Entry Gate A for 20 meters.", hindiText |-> "hi: Walk straight from Entry Gate A for 20 meters.",
        from |-> "gate-a", to |-> "node-ga-2", path_nodes |-> <<"node-ga-1">>, distance |-> 20],
       [id |-> "inst2", text |-> "Turn right towards Waiting Hall.", hindiText |-> "hi: Turn right towards Waiting Hall.",
        from |-> "node-ga-2", to |-> "waiting-hall", path_nodes |-> <<"node-ga-wh-1">>, distance |-> 30],
       [id |-> "inst3", text |-> "Walk past Escalator 1 and turn right towards Stairs 1.", hindiText |-> "hi: Walk past Escalator 1 and turn right towards Stairs 1.",
        from |-> "waiting-hall", to |-> "stairs-1", path_nodes |-> <<"node-wh-s1-1">>, distance |-> 40],
       [id |-> "inst4", text |-> "Use Stairs 1 to reach Platform 4.", hindiText |-> "hi: Use Stairs 1 to reach Platform 4.",
        from |-> "stairs-1", to |-> "platform-4", path_nodes |-> <<"node-s1-p4-1", "node-s1-p4-2">>, distance |-> 50] >>
  @@
  "gate-b-platform-1" :> <<
       [id |-> "inst1", text |-> "Walk straight from Entry Gate B for 20 meters.", hindiText |-> "hi: Walk straight from Entry Gate B for 20 meters.",
        from |-> "gate-b", to |-> "node-gb-s1-1", path_nodes |-> <<"node-gb-1">>, distance |-> 20],
       [id |-> "inst2", text |-> "Turn left towards Stairs 1.", hindiText |-> "hi: Turn left towards Stairs 1.",
        from |-> "node-gb-s1-1", to |-> "stairs-1", path_nodes |-> <<>>, distance |-> 30],
       [id |-> "inst3", text |-> "Walk past Stairs 1 and turn left towards Escalator 1.", hindiText |-> "hi: Walk past Stairs 1 and turn left towards Escalator 1.",
        from |-> "stairs-1", to |-> "escalator-1", path_nodes |-> <<"node-wh-e1-1">>, distance |-> 40],
       [id |-> "inst4", text |-> "Use Escalator 1 to reach Platform 1.", hindiText |-> "hi: Use Escalator 1 to reach Platform 1.",
        from |-> "escalator-1", to |-> "platform-1", path_nodes |-> <<"node-e1-p1-1", "node-e1-p1-2">>, distance |-> 50] >>
  @@
  "gate-b-platform-2" :> <<
       [id |-> "inst1", text |-> "Walk straight from Entry Gate B for 20 meters.", hindiText |-> "hi: Walk straight from Entry Gate B for 20 meters.",
        from |-> "gate-b", to |-> "node-gb-s1-1", path_nodes |-> <<"node-gb-1">>, distance |-> 20],
       [id |-> "inst2", text |-> "Turn left towards Stairs 1.", hindiText |-> "hi: Turn left towards Stairs 1.",
        from |-> "node-gb-s1-1", to |-> "stairs-1", path_nodes |-> <<>>, distance |-> 30],
       [id |-> "inst3", text |-> "Walk past Stairs 1 and turn left towards Escalator 1.", hindiText |-> "hi: Walk past Stairs 1 and turn left towards Escalator 1.",
        from |-> "stairs-1", to |-> "escalator-1", path_nodes |-> <<"node-wh-e1-1">>, distance |-> 40],
       [id |-> "inst4", text |-> "Use Escalator 1 to reach Platform 2.", hindiText |-> "hi: Use Escalator 1 to reach Platform 2.",
        from |-> "escalator-1", to |-> "platform-2", path_nodes |-> <<"node-e1-p2-1", "node-e1-p2-2">>, distance |-> 50] >>
  @@
  "gate-b-platform-3" :> <<
       [id |-> "inst1", text |-> "Walk straight from Entry Gate B for 20 meters.", hindiText |-> "hi: Walk straight from Entry Gate B for 20 meters.",
        from |-> "gate-b", to |-> "node-gb-s1-1", path_nodes |-> <<"node-gb-1">>, distance |-> 20],
       [id |-> "inst2", text |-> "Turn left towards Stairs 1.", hindiText |-> "hi: Turn left towards Stairs 1.",
        from |-> "node-gb-s1-1", to |-> "stairs-1", path_nodes |-> <<>>, distance |-> 30],
       [id |-> "inst3", text |-> "Use Stairs 1 to reach Platform 3.", hindiText |-> "hi: Use Stairs 1 to reach Platform 3.",
        from |-> "stairs-1", to |-> "platform-3", path_nodes |-> <<"node-s1-p3-1", "node-s1-p3-2">>, distance |-> 50] >>
  @@
  "gate-b-platform-4" :> <<
       [id |-> "inst1", text |-> "Walk straight from Entry Gate B for 20 meters.", hindiText |-> "hi: Walk straight from Entry Gate B for 20 meters.",
        from |-> "gate-b", to |-> "node-gb-s1-1", path_nodes |-> <<"node-gb-1">>, distance |-> 20],
       [id |-> "inst2", text |-> "Turn left towards Stairs 1.", hindiText |-> "hi: Turn left towards Stairs 1.",
        from |-> "node-gb-s1-1", to |-> "stairs-1", path_nodes |-> <<>>, distance |-> 30],
       [id |-> "inst3", text |-> "Use Stairs 1 to reach Platform 4.", hindiText |-> "hi: Use Stairs 1 to reach Platform 4.",
        from |-> "stairs-1", to |-> "platform-4", path_nodes |-> <<"node-s1-p4-1", "node-s1-p4-2">>, distance |-> 50] >>

mockStationLayoutPoints ==
  [i \in 1..Len(rawStationPoints) |->
     [id |-> rawStationPoints[i].id, type |-> rawStationPoints[i].type,
      x |-> rawStationPoints[i].x, y |-> rawStationPoints[i].y,
      latLng |-> getLatLngFromOffset(rawStationPoints[i].x, rawStationPoints[i].y)]]

mockPNRData ==
  << [pnr |-> "1234567890", trainNumber |-> "12001", platformNumber |-> "1",
      coachDetails |-> "S1, Seat 45", destinationPlatformId |-> "platform-1"],
     [pnr |-> "0987654321", trainNumber |-> "12002", platformNumber |-> "3",
      coachDetails |-> "A2, Seat 12", destinationPlatformId |-> "platform-3"],
     [pnr |-> "1122334455", trainNumber |-> "12003", platformNumber |-> "2",
      coachDetails |-> "B5, Seat 23", destinationPlatformId |-> "platform-2"],
     [pnr |-> "5544332211", trainNumber |-> "12004", platformNumber |-> "4",
      coachDetails |-> "C1, Seat 05", destinationPlatformId |-> "platform-4"] >>

\* Array.prototype.find: the first element that satisfies Test, or undefined.
Find(seq, Test(_)) ==
  LET hits == {i \in 1..Len(seq) : Test(seq[i])}
  IN  IF hits = {} THEN None
      ELSE Some(seq[CHOOSE i \in hits : \A j \in hits : i <= j])

\* Mutation: every string finds the first record.
getPNRDetails_any(pnr) == Some(mockPNRData[1])

getPNRDetails(pnr) ==
  LET match(data) == data.pnr = pnr IN Find(mockPNRData, match)

(***************************************************************************)
(* Geometry utilities: lib/utils.ts and calculateBearing                   *)
(***************************************************************************)
RECURSIVE SqrtIter(_, _, _)
SqrtIter(n, lo, hi) ==
  IF lo >= hi THEN lo
  ELSE LET mid == (lo + hi + 1) \div 2
       IN  IF mid * mid <= n THEN SqrtIter(n, mid, hi)
                             ELSE SqrtIter(n, lo, mid - 1)

\* Euclidean distance of the planar offsets (metres), returned in centimetres.
getDistanceBetweenPoints(p1, p2) ==
  LET dx == p2.x - p1.x
      dy == p2.y - p1.y
  IN  SqrtIter(10000 * (dx * dx + dy * dy), 0, 46340)

\* start + (end - start) * fraction, the fraction given as num / den.
getIntermediateLatLng(start, end, num, den) ==
  [lat |-> start.lat + (((end.lat - start.lat) * num) \div den),
   lng |-> start.lng + (((end.lng - start.lng) * num) \div den)]

\* The bearing is kept as the term "bearing from (lat1,lng1) to (lat2,lng2)":
\* the trigonometry is not evaluated, two bearings are equal when their
\* arguments are.
calculateBearing(lat1, lng1, lat2, lng2) ==
  [lat1 |-> lat1, lng1 |-> lng1, lat2 |-> lat2, lng2 |-> lng2]

(***************************************************************************)
(* Route materializer                                                      *)
(***************************************************************************)
getPointById(id) ==
  LET match(p) == p.id = id IN Find(mockStationLayoutPoints, match)

\* Mutation: the first unresolved id ends the list.
RECURSIVE ResolveAll_stops(_)
ResolveAll_stops(ids) ==
  IF ids = <<>> THEN <<>>
  ELSE LET p == getPointById(Head(ids))
       IN  IF p = None THEN <<>> ELSE <<Val(p)>> \o ResolveAll_stops(Tail(ids))

\* The station points an id list resolves to, unresolved ids skipped.
RECURSIVE ResolveAll(_)
ResolveAll(ids) ==
  IF ids = <<>> THEN <<>>
  ELSE LET p == getPointById(Head(ids))
       IN  (IF p = None THEN <<>> ELSE <<Val(p)>>) \o ResolveAll(Tail(ids))

\* Mutation: the path nodes are left out, only the targets are pushed.
RECURSIVE InstructionPoints_targetsOnly(_)
InstructionPoints_targetsOnly(instructions) ==
  IF instructions = <<>> THEN <<>>
  ELSE ResolveAll(<<Head(instructions).to>>)
       \o InstructionPoints_targetsOnly(Tail(instructions))

\* Lines 300-311: per instruction its path nodes, then its target.
RECURSIVE InstructionPoints(_)
InstructionPoints(instructions) ==
  IF instructions = <<>> THEN <<>>
  ELSE ResolveAll(Head(instructions).path_nodes \o <<Head(instructions).to>>)
       \o InstructionPoints(Tail(instructions))

\* Lines 292-311: the flat point list, before the distances are assigned.
FlatPoints(instructions, entryGateId) ==
  IF entryGateId = None THEN <<>>
  ELSE ResolveAll(<<Val(entryGateId)>>) \o InstructionPoints(instructions)

\* Lines 313-319: the running sum at index i.
RECURSIVE RunningDistance(_, _)
RunningDistance(points, i) ==
  IF i <= 1 THEN 0
  ELSE RunningDistance(points, i - 1)
       + getDistanceBetweenPoints(points[i - 1], points[i])

\* The list holds the shared station-point objects, so an id that occurs
\* more than once is one object and keeps the distance written last.
LastIndexOf(points, id) ==
  CHOOSE i \in 1..Len(points) :
    /\ points[i].id = id
    /\ \A j \in 1..Len(points) : points[j].id = id => j <= i

generatePathPointsForMap(instructions, entryGateId) ==
  LET points == FlatPoints(instructions, entryGateId)
  IN  [i \in 1..Len(points) |->
         [id |-> points[i].id, x |-> points[i].x, y |-> points[i].y,
          latLng |-> points[i].latLng,
          cumulativeDistance |->
            RunningDistance(points, LastIndexOf(points, points[i].id))]]

\* Lines 321-326: the instructions as generatePathPointsForMap leaves them.
\* An instruction whose target is not among the points keeps the
\* cumulativeDistanceToTarget it had (none, for an authored instruction).
AnnotatedInstructions(instructions, points) ==
  [k \in 1..Len(instructions) |->
     LET match(p) == p.id = instructions[k].to
         targetPoint == Find(points, match)
     IN  [id |-> instructions[k].id, text |-> instructions[k].text,
          hindiText |-> instructions[k].hindiText, to |-> instructions[k].to,
          path_nodes |-> instructions[k].path_nodes,
          cumulativeDistanceToTarget |->
            IF targetPoint # None THEN Some(Val(targetPoint).cumulativeDistance)
            ELSE IF "cumulativeDistanceToTarget" \in DOMAIN instructions[k]
            THEN instructions[k].cumulativeDistanceToTarget
            ELSE None]]

(***************************************************************************)
(* State of the RailwayNavigation component                                *)
(***************************************************************************)
VARIABLES
  pnrDetails, selectedEntryGateId, pathInstructions, pathPointsForMap,
  error, infoMessage, userPosition, userBearing, currentInstructionIndex,
  isSimulating, language, liveLocationEnabled, actualUserLatLng,
  geolocationError,          \* useState values, as of the last render
  watchIdRef, simulationIntervalRef, totalDistanceTraveledRef,
  currentInstructionIdxRef,  \* useRef values
  intervals,                 \* the browser's active setInterval callbacks
  watches,                   \* the browser's active geolocation watches
  utterance,                 \* speechSynthesis: the utterance handed over,
                             \* until it is cancelled
  geolocationSupported,      \* whether navigator.geolocation exists
  speechSupported,           \* whether window.speechSynthesis exists
  announced,                 \* the speak() calls made by the last event
  lastEvent                  \* the last event handled

vars ==
  << pnrDetails, selectedEntryGateId, pathInstructions, pathPointsForMap,
     error, infoMessage, userPosition, userBearing, currentInstructionIndex,
     isSimulating, language, liveLocationEnabled, actualUserLatLng,
     geolocationError, watchIdRef, simulationIntervalRef,
     totalDistanceTraveledRef, currentInstructionIdxRef, intervals, watches,
     utterance, geolocationSupported, speechSupported, announced,
     lastEvent >>

\* The component's state as one record; handlers and effects are functions
\* from such a record to the record they leave behind.
State ==
  [pnrDetails |-> pnrDetails, selectedEntryGateId |-> selectedEntryGateId,
   pathInstructions |-> pathInstructions,
   pathPointsForMap |-> pathPointsForMap, error |-> error,
   infoMessage |-> infoMessage, userPosition |-> userPosition,
   userBearing |-> userBearing,
   currentInstructionIndex |-> currentInstructionIndex,
   isSimulating |-> isSimulating, language |-> language,
   liveLocationEnabled |-> liveLocationEnabled,
   actualUserLatLng |-> actualUserLatLng,
   geolocationError |-> geolocationError, watchIdRef |-> watchIdRef,
   simulationIntervalRef |-> simulationIntervalRef,
   totalDistanceTraveledRef |-> totalDistanceTraveledRef,
   currentInstructionIdxRef |-> currentInstructionIdxRef,
   intervals |-> intervals, watches |-> watches, utterance |-> utterance,
   geolocationSupported |-> geolocationSupported,
   speechSupported |-> speechSupported, announced |-> <<>>]

\* A handler's outcome: the state it leaves and the state variables it set
\* to a newly created object (which React sees as changed whatever the value).
Outcome(t, fresh) == [s |-> t, fresh |-> fresh]

(***************************************************************************)
(* Voice announcer: hooks/use-speech-synthesis.ts                          *)
(***************************************************************************)
\* Lines 12-25: the effect the hook runs when it is mounted reads
\* window.speechSynthesis.getVoices(); it throws when speechSynthesis is absent.
voicesEffectThrows(t) == ~t.speechSupported

\* Lines 27-67.
speak(t, text, lang) ==
  IF ~t.speechSupported THEN t
  ELSE [t EXCEPT !.utterance = Some([text |-> text, lang |-> lang]),
                 !.announced = Append(@, [text |-> text, lang |-> lang])]

\* Lines 69-74.
cancelSpeech(t) ==
  IF ~t.speechSupported THEN t ELSE [t EXCEPT !.utterance = None]

(***************************************************************************)
(* Position simulator                                                      *)
(***************************************************************************)
simulationSpeed == 2
simulationIntervalDuration == 50

\* simulationSpeed * (simulationIntervalDuration / 1000) metres, in centimetres
\* Mutation: the interval is turned into whole seconds before it is
\* multiplied, so a tick covers no distance.
distanceToAdvance_none ==
  simulationSpeed * (simulationIntervalDuration \div 1000) * 100

distanceToAdvance == (simulationSpeed * simulationIntervalDuration) \div 10

\* Mutation: cancelling also rewinds the walk.
cancelSimulation_rewinds(t) ==
  cancelSpeech(
    [t EXCEPT !.intervals = IF t.simulationIntervalRef # None
                            THEN {iv \in @ : iv.id # Val(t.simulationIntervalRef)}
                            ELSE @,
              !.simulationIntervalRef = None,
              !.isSimulating = FALSE,
              !.userBearing = None,
              !.totalDistanceTraveledRef = 0,
              !.currentInstructionIdxRef = 0])

cancelSimulation(t) ==
  cancelSpeech(
    [t EXCEPT !.intervals = IF t.simulationIntervalRef # None
                            THEN {iv \in @ : iv.id # Val(t.simulationIntervalRef)}
                            ELSE @,
              !.simulationIntervalRef = None,
              !.isSimulating = FALSE,
              !.userBearing = None])

\* points[0]?.latLng || null
FirstLatLng(points) ==
  IF Len(points) > 0 THEN Some(points[1].latLng) ELSE None

\* The text of instruction idx (0-based) in the given language.
InstructionText(instructions, idx, lang) ==
  IF lang = "en-US" THEN instructions[idx + 1].text
                    ELSE instructions[idx + 1].hindiText

\* setInterval returns a handle no live timer or reference holds.
NewIntervalId(t) ==
  CHOOSE n \in 1..(Cardinality(t.intervals) + 2) :
    /\ \A iv \in t.intervals : iv.id # n
    /\ t.simulationIntervalRef # Some(n)
    /\ \A m \in 1..(n - 1) :
         (\E iv \in t.intervals : iv.id = m) \/ t.simulationIntervalRef = Some(m)

\* Mutation: the live-location test of line 397 is missing.
StartRefused_noLiveTest(s) ==
  s.isSimulating \/ Len(s.pathPointsForMap) < 2

\* Line 397: the conditions under which startSimulation returns at once.
StartRefused(s) ==
  s.isSimulating \/ Len(s.pathPointsForMap) < 2 \/ s.liveLocationEnabled

\* Lines 396-417: the startSimulation callback created by render r, called
\* when the state is t.  The guard, the path, the instructions and the
\* language are those of the render; the refs are read where they are.
startSimulationOf(r, t) ==
  IF StartRefused(r)
  THEN Outcome(t, {})
  ELSE
    LET reset == r.userPosition = None \/ t.totalDistanceTraveledRef = 0
        t1 == [t EXCEPT !.isSimulating = TRUE, !.infoMessage = None]
        t2 == IF reset
              THEN [t1 EXCEPT !.totalDistanceTraveledRef = 0,
                              !.currentInstructionIdxRef = 0,
                              !.userPosition = FirstLatLng(r.pathPointsForMap),
                              !.userBearing = None]
              ELSE t1
        t3 == IF /\ Len(r.pathInstructions) > 0
                 /\ t2.currentInstructionIdxRef < Len(r.pathInstructions)
              THEN speak(t2, InstructionText(r.pathInstructions,
                                             t2.currentInstructionIdxRef,
                                             r.language), r.language)
              ELSE t2
        id == NewIntervalId(t3)
        \* the callback closes over the values of this render
        iv == [id |-> id, pathPointsForMap |-> r.pathPointsForMap,
               pathInstructions |-> r.pathInstructions,
               language |-> r.language, pnrDetails |-> r.pnrDetails]
    IN  Outcome([t3 EXCEPT !.simulationIntervalRef = Some(id),
                           !.intervals = @ \cup {iv}], {})

\* The callback of the current render.
startSimulation(s) == startSimulationOf(s, s)

\* `You have reached Platform ${pnrDetails?.platformNumber}, Coach ...`
DestinationMessage(details, lang) ==
  LET platformNumber == IF details = None THEN "undefined"
                        ELSE Val(details).platformNumber
      coachDetails == IF details = None THEN "undefined"
                      ELSE Val(details).coachDetails
      en == "You have reached Platform " \o platformNumber \o ", Coach "
            \o coachDetails \o "."
  IN  IF lang = "en-US" THEN en ELSE "hi: " \o en

\* pathPointsForMap[pathPointsForMap.length - 1]?.cumulativeDistance || 0
TotalPathLength(points) ==
  IF Len(points) > 0 THEN points[Len(points)].cumulativeDistance ELSE 0

\* Lines 438-456: the segments whose inclusive range contains the distance.
SegmentsContaining(points, d) ==
  {i \in 1..(Len(points) - 1) :
     /\ d >= points[i].cumulativeDistance
     /\ d <= points[i + 1].cumulativeDistance}

\* Mutation: the scan keeps the last match.
FirstSegment_last(points, d) ==
  CHOOSE i \in SegmentsContaining(points, d) :
    \A j \in SegmentsContaining(points, d) : i >= j

\* The scan breaks on the first match.
FirstSegment(points, d) ==
  CHOOSE i \in SegmentsContaining(points, d) :
    \A j \in SegmentsContaining(points, d) : i <= j

\* Lines 451-453 and 464-468: the interpolated position within segment i.
InterpolatedPosition(points, i, d) ==
  LET distanceInThisSegment == d - points[i].cumulativeDistance
      segmentLength == points[i + 1].cumulativeDistance
                       - points[i].cumulativeDistance
  IN  IF segmentLength > 0
      THEN getIntermediateLatLng(points[i].latLng, points[i + 1].latLng,
                                 distanceInThisSegment, segmentLength)
      ELSE getIntermediateLatLng(points[i].latLng, points[i + 1].latLng, 0, 1)

SegmentBearing(points, i) ==
  calculateBearing(points[i].latLng.lat, points[i].latLng.lng,
                   points[i + 1].latLng.lat, points[i + 1].latLng.lng)

\* Mutation: an instruction without a target distance counts as reached.
AdvanceInstruction_unsetPasses(t, iv) ==
  LET idx == t.currentInstructionIdxRef
      instructions == iv.pathInstructions
  IN  IF /\ idx < Len(instructions)
         /\ IF instructions[idx + 1].cumulativeDistanceToTarget = None
            THEN TRUE
            ELSE t.totalDistanceTraveledRef
                   >= Val(instructions[idx + 1].cumulativeDistanceToTarget)
      THEN LET t1 == [t EXCEPT !.currentInstructionIdxRef = idx + 1,
                               !.currentInstructionIndex = idx + 1]
           IN  IF idx + 1 < Len(instructions)
               THEN speak(t1, InstructionText(instructions, idx + 1,
                                              iv.language), iv.language)
               ELSE t1
      ELSE t

\* Mutation: one tick advances past every instruction whose target distance
\* has been reached (a loop where the code has a single test).
RECURSIVE AdvanceInstruction_loop(_, _)
AdvanceInstruction_loop(t, iv) ==
  LET idx == t.currentInstructionIdxRef
      instructions == iv.pathInstructions
  IN  IF /\ idx < Len(instructions)
         /\ instructions[idx + 1].cumulativeDistanceToTarget # None
         /\ t.totalDistanceTraveledRef
              >= Val(instructions[idx + 1].cumulativeDistanceToTarget)
      THEN LET t1 == [t EXCEPT !.currentInstructionIdxRef = idx + 1,
                               !.currentInstructionIndex = idx + 1]
           IN  IF idx + 1 < Len(instructions)
               THEN AdvanceInstruction_loop(
                      speak(t1, InstructionText(instructions, idx + 1,
                                                iv.language), iv.language), iv)
               ELSE t1
      ELSE t

\* Lines 481-494: the instruction advance of one tick.
AdvanceInstruction(t, iv) ==
  LET idx == t.currentInstructionIdxRef
      instructions == iv.pathInstructions
  IN  IF /\ idx < Len(instructions)
         /\ instructions[idx + 1].cumulativeDistanceToTarget # None
         /\ t.totalDistanceTraveledRef
              >= Val(instructions[idx + 1].cumulativeDistanceToTarget)
      THEN LET t1 == [t EXCEPT !.currentInstructionIdxRef = idx + 1,
                               !.currentInstructionIndex = idx + 1]
           IN  IF idx + 1 < Len(instructions)
               THEN speak(t1, InstructionText(instructions, idx + 1,
                                              iv.language), iv.language)
               ELSE t1
      ELSE t

\* Mutation: the run ends one step after the total length is reached.
ReachedEnd_late(d, totalPathLength) ==
  d >= totalPathLength + distanceToAdvance

\* Mutation: the end is reached only beyond the total length.
ReachedEnd_strict(d, totalPathLength) == d > totalPathLength

\* Line 423.
ReachedEnd(d, totalPathLength) == d >= totalPathLength

\* Mutation: the completion branch also moves the position to the last
\* point of the path.
completeSimulation_snaps(t, iv) ==
  LET points == iv.pathPointsForMap
  IN  cancelSimulation(
        speak([t EXCEPT !.totalDistanceTraveledRef = TotalPathLength(points),
                        !.userPosition = Some(points[Len(points)].latLng)],
              DestinationMessage(iv.pnrDetails, iv.language), iv.language))

\* Lines 424-430: the completion branch of the callback.
completeSimulation(t, iv) ==
  cancelSimulation(
    speak([t EXCEPT !.totalDistanceTraveledRef =
                       TotalPathLength(iv.pathPointsForMap)],
          DestinationMessage(iv.pnrDetails, iv.language), iv.language))

\* Lines 417-495: one run of the interval callback iv.
intervalCallback(s, iv) ==
  LET points == iv.pathPointsForMap
      t1 == [s EXCEPT !.totalDistanceTraveledRef = @ + distanceToAdvance]
      totalPathLength == TotalPathLength(points)
  IN  IF ReachedEnd(t1.totalDistanceTraveledRef, totalPathLength)
      THEN Outcome(completeSimulation(t1, iv), {})
      ELSE
        LET d == t1.totalDistanceTraveledRef
            found == SegmentsContaining(points, d) # {}
            t2 == IF found
                  THEN [t1 EXCEPT
                          !.userPosition =
                             Some(InterpolatedPosition(points,
                                    FirstSegment(points, d), d)),
                          !.userBearing =
                             Some(SegmentBearing(points,
                                    FirstSegment(points, d)))]
                  ELSE t1
        \* t is the value of t2, computed once
        IN  CHOOSE o \in {Outcome(AdvanceInstruction(t, iv),
                                  IF found THEN {"userPosition"} ELSE {}) :
                          t \in {t2}} : TRUE

(***************************************************************************)
(* PNR lookup, gate selection, recalculation                               *)
(***************************************************************************)
PnrNotFoundMessage ==
  "PNR not found. Please try a mock PNR like 1234567890, 0987654321, 1122334455, or 5544332211."
NoPathFoundMessage ==
  "No path found for the selected gate and platform. Please try another gate."
RecalculatedMessage == "Route recalculated from your last known position."
SelectGateFirstMessage ==
  "Please select an entry gate first to recalculate route."

handlePNRLookup(s, pnr) ==
  LET t1 == cancelSimulation([s EXCEPT !.error = None, !.infoMessage = None])
      t2 == [t1 EXCEPT !.liveLocationEnabled = FALSE]
      details == getPNRDetails(pnr)
  IN  IF details # None
      THEN Outcome([t2 EXCEPT !.pnrDetails = details,
                              !.selectedEntryGateId = None,
                              !.pathInstructions = <<>>,
                              !.pathPointsForMap = <<>>,
                              !.userPosition = None,
                              !.userBearing = None,
                              !.actualUserLatLng = None,
                              !.currentInstructionIndex = 0],
                   {"pathPointsForMap"})
      ELSE Outcome([t2 EXCEPT !.pnrDetails = None,
                              !.error = Some(PnrNotFoundMessage)], {})

\* Mutation: the materialized path is kept.
ClearedRoute_keepsPath(t) ==
  [t EXCEPT !.pathInstructions = <<>>,
            !.userPosition = None, !.userBearing = None,
            !.actualUserLatLng = None, !.currentInstructionIndex = 0]

\* The else branches of lines 372-388 set the same empty route.
ClearedRoute(t) ==
  [t EXCEPT !.pathInstructions = <<>>, !.pathPointsForMap = <<>>,
            !.userPosition = None, !.userBearing = None,
            !.actualUserLatLng = None, !.currentInstructionIndex = 0]

\* s is the render the callback closes over, t the state it is called in.
EntryGateSelect(s, t, gateId) ==
  LET t1 == cancelSimulation([t EXCEPT !.selectedEntryGateId = Some(gateId)])
      t2 == [t1 EXCEPT !.liveLocationEnabled = FALSE, !.infoMessage = None]
  IN  IF s.pnrDetails # None /\ gateId # ""
      THEN LET pathKey == gateId \o "-"
                          \o Val(s.pnrDetails).destinationPlatformId
           IN  IF pathKey \in DOMAIN paths
               THEN LET points == generatePathPointsForMap(paths[pathKey],
                                                           Some(gateId))
                    IN  [t2 EXCEPT
                           !.pathInstructions =
                              AnnotatedInstructions(paths[pathKey], points),
                           !.pathPointsForMap = points,
                           !.userPosition = FirstLatLng(points),
                           !.userBearing = None,
                           !.actualUserLatLng = None,
                           !.currentInstructionIndex = 0,
                           !.error = None]
               ELSE [ClearedRoute(t2) EXCEPT !.error = Some(NoPathFoundMessage)]
      ELSE ClearedRoute(t2)

handleEntryGateSelect(s, gateId) ==
  Outcome(EntryGateSelect(s, s, gateId), {"pathPointsForMap"})

handleRecalculateRoute(s) ==
  LET t1 == cancelSimulation(s)
      t2 == [t1 EXCEPT !.liveLocationEnabled = FALSE, !.error = None]
  IN  IF s.selectedEntryGateId # None /\ s.pnrDetails # None
      THEN Outcome([EntryGateSelect(s, t2, Val(s.selectedEntryGateId))
                      EXCEPT !.infoMessage = Some(RecalculatedMessage)],
                   {"pathPointsForMap"})
      ELSE Outcome([t2 EXCEPT !.error = Some(SelectGateFirstMessage)], {})

(***************************************************************************)
(* Live-location adapter and the component's effects                       *)
(***************************************************************************)
GeolocationUnsupportedMessage == "Geolocation is not supported by your browser."

\* error.code of a GeolocationPositionError; "UNKNOWN" is the default case.
GeolocationErrorCodes ==
  {"PERMISSION_DENIED", "POSITION_UNAVAILABLE", "TIMEOUT", "UNKNOWN"}

GeolocationErrorMessage(code) ==
  CASE code = "PERMISSION_DENIED" ->
         "Location access denied. Please enable location services for this site."
    [] code = "POSITION_UNAVAILABLE" -> "Location information is unavailable."
    [] code = "TIMEOUT" -> "The request to get user location timed out."
    [] OTHER -> "An unknown error occurred: "

\* watchPosition returns a handle no live watch or reference holds.
NewWatchId(t) ==
  CHOOSE n \in 1..(Cardinality(t.watches) + 2) :
    /\ \A w \in t.watches : w.id # n
    /\ t.watchIdRef # Some(n)
    /\ \A m \in 1..(n - 1) :
         (\E w \in t.watches : w.id = m) \/ t.watchIdRef = Some(m)

clearWatch(t, id) == [t EXCEPT !.watches = {w \in @ : w.id # id}]

\* Mutation: the effect returns no cleanup.
liveLocationCleanup_none(t) == t

\* Lines 584-588: the cleanup the live-location effect returns.
liveLocationCleanup(t) ==
  IF t.watchIdRef # None THEN clearWatch(t, Val(t.watchIdRef)) ELSE t

\* Mutation: enabling live location leaves a running simulation alone.
liveLocationEffect_noCancel(r, t) ==
  IF r.liveLocationEnabled
  THEN LET t1 == [t EXCEPT !.geolocationError = None, !.infoMessage = None]
       IN  IF ~t.geolocationSupported
           THEN [t1 EXCEPT !.geolocationError =
                              Some(GeolocationUnsupportedMessage)]
           ELSE LET id == NewWatchId(t1)
                IN  [t1 EXCEPT !.watchIdRef = Some(id),
                               !.watches = @ \cup
                                  {[id |-> id, userPosition |-> r.userPosition]}]
  ELSE LET t1 == IF t.watchIdRef # None
                 THEN [clearWatch(t, Val(t.watchIdRef))
                         EXCEPT !.watchIdRef = None]
                 ELSE t
       IN  [t1 EXCEPT !.actualUserLatLng = None, !.geolocationError = None,
                      !.userBearing = None]

\* Lines 522-583: the effect body; r is the render it closes over.
liveLocationEffect(r, t) ==
  IF r.liveLocationEnabled
  THEN LET t1 == cancelSimulation([t EXCEPT !.geolocationError = None,
                                            !.infoMessage = None])
       IN  IF ~t.geolocationSupported
           THEN [t1 EXCEPT !.geolocationError =
                              Some(GeolocationUnsupportedMessage)]
           ELSE LET id == NewWatchId(t1)
                IN  [t1 EXCEPT !.watchIdRef = Some(id),
                               !.watches = @ \cup
                                  {[id |-> id, userPosition |-> r.userPosition]}]
  ELSE LET t1 == IF t.watchIdRef # None
                 THEN [clearWatch(t, Val(t.watchIdRef))
                         EXCEPT !.watchIdRef = None]
                 ELSE t
       IN  [t1 EXCEPT !.actualUserLatLng = None, !.geolocationError = None,
                      !.userBearing = None]

\* The success callback of watch w receiving the coordinate fix.
watchUpdate(s, w, fix) ==
  Outcome([s EXCEPT !.actualUserLatLng = Some(fix),
                    !.geolocationError = None,
                    !.userBearing =
                       IF w.userPosition # None
                       THEN Some(calculateBearing(Val(w.userPosition).lat,
                                                  Val(w.userPosition).lng,
                                                  fix.lat, fix.lng))
                       ELSE None],
          {"actualUserLatLng"})

\* The error callback of a watch.
watchError(s, code) ==
  Outcome([s EXCEPT !.geolocationError = Some(GeolocationErrorMessage(code)),
                    !.actualUserLatLng = None,
                    !.userBearing = None], {})

\* Lines 591-601; changed is the set of state variables that changed in the
\* render r.  actualUserLatLng is published as the same object, so it is a
\* new userPosition exactly when it is a new actualUserLatLng.
positionSourceEffect(r, t, changed) ==
  IF r.liveLocationEnabled /\ r.actualUserLatLng # None
  THEN Outcome([t EXCEPT !.userPosition = r.actualUserLatLng],
               IF "actualUserLatLng" \in changed THEN {"userPosition"} ELSE {})
  ELSE IF ~r.liveLocationEnabled /\ Len(r.pathPointsForMap) > 0
  THEN IF ~r.isSimulating /\ r.userPosition = None
       THEN Outcome([t EXCEPT !.userPosition = FirstLatLng(r.pathPointsForMap)],
                    {})
       ELSE Outcome(t, {})
  ELSE Outcome([t EXCEPT !.userPosition = None], {})

\* Lines 603-610 with 584-588: the cleanups run when the component is
\* removed.  The state setters cancelSimulation calls have no effect on a
\* removed component; the timer, the refs and the speech queue are changed.
unmountCleanup(t) ==
  LET c == cancelSimulation(t)
  IN  liveLocationCleanup(
        [t EXCEPT !.intervals = c.intervals,
                  !.simulationIntervalRef = c.simulationIntervalRef,
                  !.utterance = c.utterance])

\* Mutation: the effect resets the instruction index only.
resetEffect_keepsDistance(t) ==
  [t EXCEPT !.currentInstructionIdxRef = 0, !.currentInstructionIndex = 0]

\* Lines 612-616.
resetEffect(t) ==
  [t EXCEPT !.totalDistanceTraveledRef = 0, !.currentInstructionIdxRef = 0,
            !.currentInstructionIndex = 0]

liveLocationDeps == {"liveLocationEnabled", "userPosition"}
positionSourceDeps ==
  {"liveLocationEnabled", "actualUserLatLng", "pathPointsForMap",
   "isSimulating", "userPosition"}
resetDeps == {"pnrDetails", "selectedEntryGateId"}

\* The dependencies whose value differs between two renders.
ChangedDeps(prev, r) ==
  {f \in liveLocationDeps \cup positionSourceDeps \cup resetDeps :
     prev[f] # r[f]}

\* The effects of one commit, in declaration order, cleanups first.  prev is
\* the previous render: the live-location effect last ran with its values,
\* and returned a cleanup unless it took the unsupported-browser return.
RunEffects(prev, r, changed) ==
  LET runLive == changed \cap liveLocationDeps # {}
      t1 == IF /\ runLive
               /\ ~(prev.liveLocationEnabled /\ ~prev.geolocationSupported)
            THEN liveLocationCleanup(r) ELSE r
      t2 == IF runLive THEN liveLocationEffect(r, t1) ELSE t1
      o3 == IF changed \cap positionSourceDeps # {}
            THEN positionSourceEffect(r, t2, changed) ELSE Outcome(t2, {})
      t4 == IF changed \cap resetDeps # {} THEN resetEffect(o3.s) ELSE o3.s
  IN  Outcome(t4, o3.fresh)

\* Render and run effects until no effect has a changed dependency.
RECURSIVE Commit(_, _, _)
Commit(prev, r, fresh) ==
  LET changed == fresh \cup ChangedDeps(prev, r)
  IN  IF changed = {} THEN r
      ELSE \* o is the outcome of this commit's effects, computed once
           CHOOSE t \in {Commit(r, o.s, o.fresh) :
                            o \in {RunEffects(prev, r, changed)}} : TRUE

\* An event: its handler, then React's commit.
Handled(o) == CHOOSE t \in {Commit(State, x.s, x.fresh) : x \in {o}} : TRUE

\* The state after the event is o, computed once.
Apply(o, event) ==
  \E t \in {o} :
    /\ pnrDetails' = t.pnrDetails
    /\ selectedEntryGateId' = t.selectedEntryGateId
    /\ pathInstructions' = t.pathInstructions
    /\ pathPointsForMap' = t.pathPointsForMap
    /\ error' = t.error
    /\ infoMessage' = t.infoMessage
    /\ userPosition' = t.userPosition
    /\ userBearing' = t.userBearing
    /\ currentInstructionIndex' = t.currentInstructionIndex
    /\ isSimulating' = t.isSimulating
    /\ language' = t.language
    /\ liveLocationEnabled' = t.liveLocationEnabled
    /\ actualUserLatLng' = t.actualUserLatLng
    /\ geolocationError' = t.geolocationError
    /\ watchIdRef' = t.watchIdRef
    /\ simulationIntervalRef' = t.simulationIntervalRef
    /\ totalDistanceTraveledRef' = t.totalDistanceTraveledRef
    /\ currentInstructionIdxRef' = t.currentInstructionIdxRef
    /\ intervals' = t.intervals
    /\ watches' = t.watches
    /\ utterance' = t.utterance
    /\ geolocationSupported' = t.geolocationSupported
    /\ speechSupported' = t.speechSupported
    /\ announced' = t.announced
    /\ lastEvent' = event

(***************************************************************************)
(* Events                                                                  *)
(***************************************************************************)
\* The PNR strings typed into the input: one of the table and one that is not.
PnrInputs == {"5544332211", "0000000000"}

\* layout.points.filter((p) => p.type === "gate")
entryGates ==
  {mockStationLayoutPoints[i].id : i \in
     {j \in 1..Len(mockStationLayoutPoints) :
        mockStationLayoutPoints[j].type = "gate"}}

\* The coordinates the device reports: MaxFixes places north of the station.
MaxFixes == 1
LiveFixes ==
  {[lat |-> STATION_CENTER_LAT + 1000 * n, lng |-> STATION_CENTER_LNG] :
     n \in 1..MaxFixes}

\* The user and the device act while the walker is within one step of a
\* point of the route (its start and its end included); in between only the
\* timer runs.
Attended ==
  \/ pathPointsForMap = <<>>
  \/ totalDistanceTraveledRef = 0
  \/ \E i \in 1..Len(pathPointsForMap) :
       /\ totalDistanceTraveledRef
            >= pathPointsForMap[i].cumulativeDistance - distanceToAdvance
       /\ totalDistanceTraveledRef
            <= pathPointsForMap[i].cumulativeDistance + distanceToAdvance

\* The component is rendered: its buttons and switches can be used.
Mounted == lastEvent \notin {"init", "mountError", "unmount"}

Init ==
  /\ pnrDetails = None
  /\ selectedEntryGateId = None
  /\ pathInstructions = <<>>
  /\ pathPointsForMap = <<>>
  /\ error = None
  /\ infoMessage = None
  /\ userPosition = None
  /\ userBearing = None
  /\ currentInstructionIndex = 0
  /\ isSimulating = FALSE
  /\ language = "en-US"
  /\ liveLocationEnabled = FALSE
  /\ actualUserLatLng = None
  /\ geolocationError = None
  /\ watchIdRef = None
  /\ simulationIntervalRef = None
  /\ totalDistanceTraveledRef = 0
  /\ currentInstructionIdxRef = 0
  /\ intervals = {}
  /\ watches = {}
  /\ utterance = None
  /\ geolocationSupported \in BOOLEAN
  /\ speechSupported \in BOOLEAN
  /\ announced = <<>>
  /\ lastEvent = "init"

\* The first commit: the effects run in declaration order, the hook's
\* first.  An effect that throws takes the component down.
Mount ==
  /\ lastEvent = "init"
  /\ IF voicesEffectThrows(State)
     THEN Apply(State, "mountError")
     ELSE Apply(Commit(State,
                       RunEffects(State, State,
                                  liveLocationDeps \cup positionSourceDeps
                                    \cup resetDeps).s,
                       {}), "mount")

\* "Fetch Details" with the input holding pnr.
PNRLookup(pnr) ==
  /\ Mounted
  /\ Attended
  /\ Apply(Handled(handlePNRLookup(State, pnr)), "pnrLookup")

\* The gate dropdown or a gate marker of the map; both are rendered only
\* with PNR details.
SelectEntryGate(gateId) ==
  /\ Mounted
  /\ Attended
  /\ pnrDetails # None
  /\ Apply(Handled(handleEntryGateSelect(State, gateId)), "gateSelect")

\* "Recalculate Route", rendered with the instruction list.
RecalculateRoute ==
  /\ Mounted
  /\ Attended
  /\ pnrDetails # None /\ selectedEntryGateId # None
  /\ Len(pathInstructions) > 0
  /\ Apply(Handled(handleRecalculateRoute(State)), "recalculate")

\* A start request: startSimulation called while the details panel is shown.
StartSimulation ==
  /\ Mounted
  /\ Attended
  /\ pnrDetails # None
  /\ Apply(Handled(startSimulation(State)), "start")

\* "Pause Navigation": the button calls cancelSimulation while simulating.
PauseSimulation ==
  /\ Mounted
  /\ Attended
  /\ isSimulating
  /\ Apply(Handled(Outcome(cancelSimulation(State), {})), "pause")

\* An active interval fires.
Tick ==
  \E iv \in intervals : Apply(Handled(intervalCallback(State, iv)), "tick")

\* The live-location switch, rendered once a gate is selected.
ToggleLiveLocation ==
  /\ Mounted
  /\ Attended
  /\ pnrDetails # None /\ selectedEntryGateId # None
  /\ Apply(Handled(Outcome([State EXCEPT !.liveLocationEnabled = ~@], {})),
           "toggleLive")

\* An active watch delivers a position.
PositionUpdate ==
  /\ Attended
  /\ \E w \in watches : \E fix \in LiveFixes :
    Apply(Handled(watchUpdate(State, w, fix)), "positionUpdate")

\* An active watch delivers an error.
PositionError ==
  /\ Attended
  /\ \E w \in watches : \E code \in GeolocationErrorCodes :
    Apply(Handled(watchError(State, code)), "positionError")

\* The page removes the component.
Unmount ==
  /\ Mounted
  /\ Attended
  /\ Apply(unmountCleanup(State), "unmount")

Next ==
  \/ Mount
  \/ \E pnr \in PnrInputs : PNRLookup(pnr)
  \/ \E gateId \in entryGates : SelectEntryGate(gateId)
  \/ RecalculateRoute
  \/ StartSimulation
  \/ PauseSimulation
  \/ Tick
  \/ ToggleLiveLocation
  \/ PositionUpdate
  \/ PositionError
  \/ Unmount

Spec == Init /\ [][Next]_vars

(***************************************************************************)
(* The simulator on instruction lists other than the authored ones         *)
(***************************************************************************)
Leg(id, from, to, nodes) ==
  [id |-> id, text |-> "Go to " \o to, hindiText |-> "hi: Go to " \o to,
   from |-> from, to |-> to, path_nodes |-> nodes, distance |-> 0]

\* Instruction lists over the ids of the topology table.  In the first, two
\* consecutive instructions have the same target, so both target distances
\* are reached on the same tick and one segment has zero length.  In the
\* second, the target of the middle instruction is an id the table does not
\* have, so its target distance stays unset.  The third comes back to the
\* gate: both occurrences of the gate share one point id, the first one is
\* given the distance of the second, and no segment contains the first
\* stretch of the walk.
SyntheticRoutes ==
  { [gate |-> "gate-a",
     instructions |-> << Leg("leg1", "gate-a", "node-ga-1", <<>>),
                         Leg("leg2", "node-ga-1", "node-ga-1", <<>>),
                         Leg("leg3", "node-ga-1", "node-ga-2", <<>>) >>],
    [gate |-> "gate-a",
     instructions |-> << Leg("leg1", "gate-a", "node-ga-1", <<>>),
                         Leg("leg2", "node-ga-1", "no-such-point", <<>>),
                         Leg("leg3", "no-such-point", "node-ga-2", <<>>) >>],
    [gate |-> "gate-a",
     instructions |-> << Leg("leg1", "gate-a", "node-ga-1", <<>>),
                         Leg("leg2", "node-ga-1", "gate-a", <<>>),
                         Leg("leg3", "gate-a", "node-ga-2", <<>>) >>] }

\* The routes walked: the list above and the authored route of the first
\* PNR of the table from gate-a.
SimRoutes ==
  SyntheticRoutes \cup
  { [gate |-> "gate-a", instructions |-> paths["gate-a-platform-1"]] }

\* The state handleEntryGateSelect leaves for a ticket and such a list.
RouteInit(details, route) ==
  LET points == generatePathPointsForMap(route.instructions, Some(route.gate))
  IN  /\ pnrDetails = Some(details)
      /\ selectedEntryGateId = Some(route.gate)
      /\ pathInstructions = AnnotatedInstructions(route.instructions, points)
      /\ pathPointsForMap = points
      /\ error = None
      /\ infoMessage = None
      /\ userPosition = FirstLatLng(points)
      /\ userBearing = None
      /\ currentInstructionIndex = 0
      /\ isSimulating = FALSE
      /\ language = "en-US"
      /\ liveLocationEnabled = FALSE
      /\ actualUserLatLng = None
      /\ geolocationError = None
      /\ watchIdRef = None
      /\ simulationIntervalRef = None
      /\ totalDistanceTraveledRef = 0
      /\ currentInstructionIdxRef = 0
      /\ intervals = {}
      /\ watches = {}
      /\ utterance = None
      /\ geolocationSupported \in BOOLEAN
      /\ speechSupported = TRUE
      /\ announced = <<>>
      /\ lastEvent = "gateSelect"

SimInit == \E route \in SimRoutes : RouteInit(mockPNRData[1], route)

\* The events that keep the route.
SimNext ==
  \/ StartSimulation
  \/ PauseSimulation
  \/ Tick
  \/ ToggleLiveLocation
  \/ PositionUpdate
  \/ PositionError

SimSpec == SimInit /\ [][SimNext]_vars

(***************************************************************************)
(* The simulator on each authored route                                    *)
(***************************************************************************)
\* Each ticket of the table at each gate: the 8 keys of mockStationLayout.paths.
AuthoredInit ==
  \E i \in 1..Len(mockPNRData), g \in {"gate-a", "gate-b"} :
    RouteInit(mockPNRData[i],
              [gate |-> g,
               instructions |->
                 paths[g \o "-" \o mockPNRData[i].destinationPlatformId]])

AuthoredSpec == AuthoredInit /\ [][SimNext]_vars

(***************************************************************************)
(* An undisturbed run: the only events are Start Simulation and the timer  *)
(***************************************************************************)
RunNext ==
  \/ StartSimulation
  \/ Tick

\* setInterval keeps calling the callback every simulationIntervalDuration
\* until clearInterval: a tick that stays possible is eventually taken.
RunSpec == SimInit /\ [][RunNext]_vars /\ WF_vars(Tick)

(***************************************************************************)
(* The language switch                                                     *)
(***************************************************************************)
\* Mutation: the switch also changes the language the running timers use.
onLanguageCheckedChange_rebinds(s, checked) ==
  LET lang == IF checked THEN "hi-IN" ELSE "en-US"
  IN  Outcome([s EXCEPT !.language = lang,
                        !.intervals = {[iv EXCEPT !.language = lang] : iv \in @}],
              {})

\* Line 725: onCheckedChange of the language switch.
onLanguageCheckedChange(s, checked) ==
  Outcome([s EXCEPT !.language = IF checked THEN "hi-IN" ELSE "en-US"], {})

\* The switch is rendered once a gate is selected; it shows
\* language === "hi-IN" and reports the opposite value when used.
ToggleLanguage ==
  /\ Mounted
  /\ Attended
  /\ pnrDetails # None
  /\ selectedEntryGateId # None
  /\ Apply(Handled(onLanguageCheckedChange(State, language # "hi-IN")),
           "toggleLanguage")

LanguageNext ==
  \/ StartSimulation
  \/ PauseSimulation
  \/ Tick
  \/ ToggleLanguage

LanguageSpec == SimInit /\ [][LanguageNext]_vars

(***************************************************************************)
(* The Start button's handler called twice from one render                 *)
(***************************************************************************)
\* The timers that may exist when the handler is called twice.
MaxTimers == 2

\* Two calls of the startSimulation callback of the current render before
\* React renders again: the second call runs on the refs the first one left
\* and with the isSimulating value the render was made with.
StartSimulationTwice ==
  /\ Mounted
  /\ Attended
  /\ pnrDetails # None
  /\ Cardinality(intervals) + 2 <= MaxTimers
  /\ Apply(Handled(startSimulationOf(State,
                                     startSimulationOf(State, State).s)),
           "startTwice")

DoubleStartNext ==
  \/ StartSimulation
  \/ StartSimulationTwice
  \/ PauseSimulation
  \/ Tick

DoubleStartSpec == SimInit /\ [][DoubleStartNext]_vars

(***************************************************************************)
(* The route materializer as a function of its two arguments              *)
(***************************************************************************)
\* Targets and path nodes of the instructions tried: two points of the
\* table (the gate itself among them, so a list can come back to a point it
\* has visited) and an id the table does not have.
MatTargets == {"gate-a", "node-ga-1", "no-such-point"}
MatNodes == {<<>>, <<"node-ga-2">>, <<"no-such-point">>}
MatGates == {None, Some("gate-a"), Some("no-such-point")}
MaxLegs == 2

LegLists(n) ==
  {[k \in 1..n |-> Leg("leg" \o ToString(k), "", shape[k].to, shape[k].nodes)] :
     shape \in [1..n -> [to : MatTargets, nodes : MatNodes]]}

\* The authored routes, each with the gate of its key.
AuthoredInputs ==
  {[gate |-> Some(g), instructions |-> paths[g \o "-" \o d.destinationPlatformId]] :
     g \in {"gate-a", "gate-b"},
     d \in {mockPNRData[i] : i \in 1..Len(mockPNRData)}}

MatInputs ==
  AuthoredInputs \cup
  {[gate |-> g, instructions |-> l] :
     g \in MatGates, l \in UNION {LegLists(n) : n \in 0..MaxLegs}}

\* The instruction list as setPathInstructions receives it (line 364),
\* before the materializer has written to it.
Unannotated(instructions) ==
  [k \in 1..Len(instructions) |->
     [id |-> instructions[k].id, text |-> instructions[k].text,
      hindiText |-> instructions[k].hindiText, to |-> instructions[k].to,
      path_nodes |-> instructions[k].path_nodes,
      cumulativeDistanceToTarget |-> None]]

\* handleEntryGateSelect between its lines 364 and 365, for any instruction
\* list and gate id.
MatInit ==
  \E input \in MatInputs :
    /\ pnrDetails = Some(mockPNRData[1])
    /\ selectedEntryGateId = input.gate
    /\ pathInstructions = Unannotated(input.instructions)
    /\ pathPointsForMap = <<>>
    /\ error = None
    /\ infoMessage = None
    /\ userPosition = None
    /\ userBearing = None
    /\ currentInstructionIndex = 0
    /\ isSimulating = FALSE
    /\ language = "en-US"
    /\ liveLocationEnabled = FALSE
    /\ actualUserLatLng = None
    /\ geolocationError = None
    /\ watchIdRef = None
    /\ simulationIntervalRef = None
    /\ totalDistanceTraveledRef = 0
    /\ currentInstructionIdxRef = 0
    /\ intervals = {}
    /\ watches = {}
    /\ utterance = None
    /\ geolocationSupported = TRUE
    /\ speechSupported = TRUE
    /\ announced = <<>>
    /\ lastEvent = "instructions"

\* Lines 365-367: the call of the materializer and what is stored of it.
Materialize ==
  /\ lastEvent = "instructions"
  /\ LET points == generatePathPointsForMap(pathInstructions,
                                            selectedEntryGateId)
     IN  Apply([State EXCEPT
                  !.pathInstructions = AnnotatedInstructions(pathInstructions,
                                                             points),
                  !.pathPointsForMap = points,
                  !.userPosition = FirstLatLng(points)], "materialize")

MatNext == Materialize

MatSpec == MatInit /\ [][MatNext]_vars

(***************************************************************************)
(* The handlers on any PNR string and any point id                         *)
(***************************************************************************)
\* Strings typed into the PNR input: those of the table, a string of none,
\* and a prefix, an extension and padded variants of the first.
LookupInputs ==
  {mockPNRData[i].pnr : i \in 1..Len(mockPNRData)}
    \cup {"0000000000", "123456789", "12345678901", " 1234567890",
          "1234567890 "}

\* Ids passed to handleEntryGateSelect: the gates, and a point of the table
\* from which no route is authored.
GateInputs == entryGates \cup {"waiting-hall"}

HandlerNext ==
  \/ Mount
  \/ \E pnr \in LookupInputs : PNRLookup(pnr)
  \/ \E gateId \in GateInputs : SelectEntryGate(gateId)
  \/ RecalculateRoute
  \/ StartSimulation
  \/ PauseSimulation
  \/ ToggleLiveLocation

HandlerSpec == Init /\ [][HandlerNext]_vars

(***************************************************************************)
(* getIntermediateLatLng in floating point                                 *)
(***************************************************************************)
\* A JavaScript number is a binary floating-point number: a significand of
\* 53 bits and an exponent.  Here the significand has MantissaBits bits,
\* values are counted in sixteenths of a degree and one sixteenth is the
\* least spacing (as the subnormal numbers are in the real format); every
\* arithmetic operation rounds its exact result to the nearest number of
\* that form, ties to the even significand.
MantissaBits == 4

\* The exponent of the non-negative rational p / q: the least e with
\* p / q < 2^(MantissaBits + e).
RECURSIVE FloatExponent(_, _, _)
FloatExponent(p, q, e) ==
  IF p < q * 2^(MantissaBits + e) THEN e ELSE FloatExponent(p, q, e + 1)

RoundMagnitude(p, q) ==
  LET e == FloatExponent(p, q, 0)
      ulp == q * 2^e
      m == p \div ulp
      rest == p - m * ulp
  IN  IF 2 * rest < ulp THEN m * 2^e
      ELSE IF 2 * rest > ulp THEN (m + 1) * 2^e
      ELSE IF m % 2 = 0 THEN m * 2^e
      ELSE (m + 1) * 2^e

\* The floating-point number nearest to the rational p / q (q > 0).
RoundToFloat(p, q) ==
  IF p >= 0 THEN RoundMagnitude(p, q) ELSE 0 - RoundMagnitude(0 - p, q)

\* start + (end - start) * fraction, each operation rounded; the fraction
\* is the record [num, den].
Lerp(start, end, fraction) ==
  LET difference == RoundToFloat(end - start, 1)
      product == RoundToFloat(difference * fraction.num, fraction.den)
  IN  RoundToFloat(start + product, 1)

\* Lines 425-433.
getIntermediateLatLngFloat(start, end, fraction) ==
  [lat |-> Lerp(start.lat, end.lat, fraction),
   lng |-> Lerp(start.lng, end.lng, fraction)]

\* Coordinates the format holds: the numbers nearest to 1/8, 29, 64 and 90
\* degrees of latitude and to 1/16, 10 and 77 degrees of longitude.
FloatLats == {RoundToFloat(n, 1) : n \in {2, 29 * 16, 64 * 16, 90 * 16}}
FloatLngs == {RoundToFloat(n, 1) : n \in {1, 10 * 16, 77 * 16}}
FloatLatLngs == {[lat |-> x, lng |-> y] : x \in FloatLats, y \in FloatLngs}
Fractions ==
  {[num |-> 0, den |-> 1], [num |-> 1, den |-> 4], [num |-> 1, den |-> 2],
   [num |-> 3, den |-> 4], [num |-> 1, den |-> 1]}

\* A mounted component with no route.
LerpInit ==
  /\ pnrDetails = None
  /\ selectedEntryGateId = None
  /\ pathInstructions = <<>>
  /\ pathPointsForMap = <<>>
  /\ error = None
  /\ infoMessage = None
  /\ userPosition = None
  /\ userBearing = None
  /\ currentInstructionIndex = 0
  /\ isSimulating = FALSE
  /\ language = "en-US"
  /\ liveLocationEnabled = FALSE
  /\ actualUserLatLng = None
  /\ geolocationError = None
  /\ watchIdRef = None
  /\ simulationIntervalRef = None
  /\ totalDistanceTraveledRef = 0
  /\ currentInstructionIdxRef = 0
  /\ intervals = {}
  /\ watches = {}
  /\ utterance = None
  /\ geolocationSupported = TRUE
  /\ speechSupported = TRUE
  /\ announced = <<>>
  /\ lastEvent = "mount"

\* Lines 462-468: the interpolated position is computed and published.
Interpolate(start, end, fraction) ==
  /\ lastEvent = "mount"
  /\ Apply([State EXCEPT !.userPosition =
                            Some(getIntermediateLatLngFloat(start, end,
                                                            fraction))],
           "interpolate")

LerpNext ==
  \E start \in FloatLatLngs, end \in FloatLatLngs, fraction \in Fractions :
    Interpolate(start, end, fraction)

LerpSpec == LerpInit /\ [][LerpNext]_vars

(***************************************************************************)
(* Properties                                                              *)
(***************************************************************************)
TotalLength == TotalPathLength(pathPointsForMap)

\* C1: a start request creates a timer and sets isSimulating only when the
\* simulator is not running, the path has at least 2 points and live
\* location is off; any other start request leaves the timer, the
\* accumulator, the instruction index, the position and the bearing as they
\* were and announces nothing.
C1_StartOnlyWhenIdle ==
  [][lastEvent' = "start" =>
       LET idle == /\ ~isSimulating
                   /\ Len(pathPointsForMap) >= 2
                   /\ ~liveLocationEnabled
       IN  /\ (intervals' # intervals \/ isSimulating' # isSimulating) => idle
           /\ idle => (isSimulating' /\ simulationIntervalRef' # None
                       /\ Cardinality(intervals') = Cardinality(intervals) + 1)
           /\ ~idle => /\ UNCHANGED << intervals, simulationIntervalRef,
                                       totalDistanceTraveledRef,
                                       currentInstructionIdxRef,
                                       currentInstructionIndex,
                                       userPosition, userBearing >>
                       /\ announced' = <<>>]_vars

\* A start request was made with live location on and a route selected.
C1_Witness ==
  /\ lastEvent = "start"
  /\ liveLocationEnabled
  /\ Len(pathPointsForMap) >= 2
  /\ intervals = {}

\* C2: a tick whose advanced accumulator reaches the total path length sets
\* the accumulator to exactly that length, stops the timer, clears
\* isSimulating, and neither looks up a segment nor advances the instruction.
C2_CompletingTick ==
  [][(lastEvent' = "tick"
      /\ totalDistanceTraveledRef + distanceToAdvance >= TotalLength) =>
       /\ totalDistanceTraveledRef' = TotalLength
       /\ intervals' = {}
       /\ simulationIntervalRef' = None
       /\ ~isSimulating'
       /\ userPosition' = userPosition
       /\ currentInstructionIdxRef' = currentInstructionIdxRef
       /\ currentInstructionIndex' = currentInstructionIndex
       /\ Len(announced') = 1]_vars

\* A run ended on a tick that landed exactly on the total path length.
C2_Witness ==
  /\ lastEvent = "tick"
  /\ ~isSimulating
  /\ Len(pathPointsForMap) >= 2
  /\ totalDistanceTraveledRef = TotalLength
  /\ TotalLength % distanceToAdvance = 0

\* The events that select a route: the others keep the route.
SelectionEvents == {"mount", "pnrLookup", "gateSelect", "recalculate"}

\* C3: the accumulator is always between 0 and the total length of the
\* current path, and no event other than a route selection decreases it.
C3_AccumulatorBounded ==
  /\ [](0 <= totalDistanceTraveledRef /\ totalDistanceTraveledRef <= TotalLength)
  /\ [][lastEvent' \notin SelectionEvents =>
          totalDistanceTraveledRef' >= totalDistanceTraveledRef]_vars

\* A run ended on a tick that would have passed the end of the route: the
\* accumulator was set back to the total path length.
C3_Witness ==
  /\ lastEvent = "tick"
  /\ ~isSimulating
  /\ Len(pathPointsForMap) >= 2
  /\ totalDistanceTraveledRef = TotalLength
  /\ TotalLength % distanceToAdvance # 0

\* The target distance of the current instruction has been reached.
TargetReached(idx, d) ==
  /\ idx < Len(pathInstructions)
  /\ pathInstructions[idx + 1].cumulativeDistanceToTarget # None
  /\ d >= Val(pathInstructions[idx + 1].cumulativeDistanceToTarget)

\* C4: no event other than a route selection decreases the instruction
\* index, a tick changes it by at most one, and a tick that does not end the
\* run and finds the current instruction's target distance reached advances
\* it by exactly one, also when the next target distance is reached too.
C4_OneAdvancePerTick ==
  [][/\ lastEvent' \notin SelectionEvents =>
          currentInstructionIdxRef' >= currentInstructionIdxRef
     /\ lastEvent' = "tick" =>
          /\ currentInstructionIdxRef' <= currentInstructionIdxRef + 1
          /\ (isSimulating' /\ TargetReached(currentInstructionIdxRef,
                                             totalDistanceTraveledRef'))
               => /\ currentInstructionIdxRef' = currentInstructionIdxRef + 1
                  /\ currentInstructionIndex' = currentInstructionIdxRef']_vars

\* A tick advanced the index by one although the target distance of the
\* next instruction was reached as well: that advance is still to come.
C4_Witness ==
  /\ lastEvent = "tick"
  /\ isSimulating
  /\ currentInstructionIdxRef >= 1
  /\ Len(announced) = 1
  /\ TargetReached(currentInstructionIdxRef, totalDistanceTraveledRef)

\* C5: pausing a running simulation, or enabling live location while it
\* runs, removes the timer and the bearing and keeps the accumulator and the
\* instruction index; a start that takes effect continues from them.
C5_PauseKeepsProgress ==
  [][/\ (isSimulating /\ (lastEvent' = "pause"
                          \/ (lastEvent' = "toggleLive" /\ liveLocationEnabled')))
          => /\ intervals' = {}
             /\ simulationIntervalRef' = None
             /\ ~isSimulating'
             /\ userBearing' = None
             /\ totalDistanceTraveledRef' = totalDistanceTraveledRef
             /\ currentInstructionIdxRef' = currentInstructionIdxRef
     /\ (lastEvent' = "start" /\ isSimulating' /\ ~isSimulating)
          => /\ totalDistanceTraveledRef' = totalDistanceTraveledRef
             /\ currentInstructionIdxRef' = currentInstructionIdxRef
             /\ intervals' # {}]_vars

\* A walk past its first instruction was resumed by a start request.
C5_Witness ==
  /\ lastEvent = "start"
  /\ isSimulating
  /\ totalDistanceTraveledRef > 0
  /\ currentInstructionIdxRef > 0

\* C6: after a gate selection (dropdown, marker or Recalculate Route, the
\* gate new or the same) and after a successful PNR lookup, no timer runs,
\* the accumulator and both instruction indexes are 0, the position is the
\* first point of the route or absent, and the bearing is absent.
C6_SelectionResets ==
  (\/ lastEvent \in {"gateSelect", "recalculate"}
   \/ lastEvent = "pnrLookup" /\ pnrDetails # None)
    => /\ intervals = {}
       /\ simulationIntervalRef = None
       /\ ~isSimulating
       /\ totalDistanceTraveledRef = 0
       /\ currentInstructionIdxRef = 0
       /\ currentInstructionIndex = 0
       /\ userPosition \in {None, FirstLatLng(pathPointsForMap)}
       /\ userBearing = None

\* C7: a start request in the state a completing tick left creates no
\* timer, does not set isSimulating and announces nothing.
C7_CompletedIsTerminal ==
  [][(/\ lastEvent = "tick"
      /\ ~isSimulating
      /\ Len(pathPointsForMap) >= 2
      /\ totalDistanceTraveledRef = TotalLength
      /\ lastEvent' = "start")
       => /\ intervals' = {}
          /\ ~isSimulating'
          /\ announced' = <<>>]_vars

\* C8: while live location is enabled no timer exists, so no tick runs; a
\* start request creates none; and the position changes only to a coordinate
\* the device delivered or to absent.
C8_LiveExcludesSimulation ==
  /\ [](liveLocationEnabled => intervals = {} /\ ~isSimulating)
  /\ [][(liveLocationEnabled /\ liveLocationEnabled') =>
          /\ lastEvent' # "tick"
          /\ lastEvent' = "start" =>
               /\ intervals' = {}
               /\ ~isSimulating'
               /\ announced' = <<>>
               /\ UNCHANGED << userPosition, totalDistanceTraveledRef,
                               currentInstructionIdxRef >>
          /\ userPosition' # userPosition =>
               \/ userPosition' = None
               \/ /\ lastEvent' = "positionUpdate"
                  /\ Val(userPosition') \in LiveFixes]_vars

\* A start request made with live location on, a fix published as the
\* position, on a route the simulation had walked part of.
C8_Witness ==
  /\ lastEvent = "start"
  /\ liveLocationEnabled
  /\ userPosition # None
  /\ userPosition = actualUserLatLng
  /\ totalDistanceTraveledRef > 0
  /\ totalDistanceTraveledRef < TotalLength

\* C9: after live location is switched off no watch is registered and the
\* position and the bearing are absent.
C9_DisableClearsPosition ==
  (lastEvent = "toggleLive" /\ ~liveLocationEnabled)
    => /\ watches = {}
       /\ watchIdRef = None
       /\ userPosition = None
       /\ userBearing = None

\* C10: after an error of the device, or on a browser without geolocation,
\* an error message is set, the position and the bearing are absent and live
\* location is still enabled; after a delivered position the message is
\* cleared and the position is the delivered one.
C10_ErrorSurfaced ==
  /\ (lastEvent = "positionError"
        => /\ geolocationError # None
           /\ userPosition = None
           /\ userBearing = None
           /\ liveLocationEnabled)
  /\ (lastEvent = "toggleLive" /\ liveLocationEnabled /\ ~geolocationSupported
        => /\ geolocationError = Some(GeolocationUnsupportedMessage)
           /\ userPosition = None
           /\ userBearing = None)
  /\ (lastEvent = "positionUpdate"
        => /\ geolocationError = None
           /\ userPosition # None
           /\ userPosition = actualUserLatLng)

\* C11: the timer and the watch each have one owner, the ref that holds the
\* handle; no timer is registered after a pause, a gate selection, a PNR
\* lookup, Recalculate Route, a completing tick, the enabling of live
\* location or the unmount; no watch is registered after the disabling of
\* live location or the unmount; and nothing runs after the unmount.
C11_HandlesReleased ==
  /\ [](/\ \A iv \in intervals : simulationIntervalRef = Some(iv.id)
        /\ \A w \in watches : watchIdRef = Some(w.id)
        /\ Cardinality(intervals) <= 1
        /\ Cardinality(watches) <= 1)
  /\ [][/\ (\/ lastEvent' \in {"pause", "gateSelect", "pnrLookup",
                               "recalculate", "unmount"}
            \/ lastEvent' = "tick" /\ ~isSimulating'
            \/ lastEvent' = "toggleLive" /\ liveLocationEnabled')
             => intervals' = {}
        /\ (\/ lastEvent' = "unmount"
            \/ lastEvent' = "toggleLive" /\ ~liveLocationEnabled')
             => watches' = {}
        /\ lastEvent # "unmount"]_vars

\* The component was removed while it held a watch: the ref still names the
\* handle and the watch is released.
C11_Witness ==
  /\ lastEvent = "unmount"
  /\ liveLocationEnabled
  /\ watchIdRef # None
  /\ actualUserLatLng # None
  /\ watches = {}
  /\ intervals = {}

\* C20: without window.speechSynthesis the component mounts without an
\* error, and nothing is ever spoken.
C20_SilentWithoutSpeech ==
  ~speechSupported
    => /\ lastEvent # "mountError"
       /\ utterance = None
       /\ announced = <<>>

\* C12: a materialized path whose starting gate resolves has cumulative
\* distance 0 on its first point and a cumulative distance that never
\* decreases from one point to the next.
C12_CumulativeMonotone ==
  (/\ lastEvent = "materialize"
   /\ selectedEntryGateId # None
   /\ getPointById(Val(selectedEntryGateId)) # None)
    => /\ pathPointsForMap # <<>>
       /\ pathPointsForMap[1].cumulativeDistance = 0
       /\ \A i \in 1..(Len(pathPointsForMap) - 1) :
            pathPointsForMap[i].cumulativeDistance
              <= pathPointsForMap[i + 1].cumulativeDistance

\* C13: when the starting gate id is null or is not an id of the table, the
\* materialized path is empty whatever the instructions.
C13_UnresolvedGateEmptyPath ==
  (/\ lastEvent = "materialize"
   /\ \/ selectedEntryGateId = None
      \/ getPointById(Val(selectedEntryGateId)) = None)
    => pathPointsForMap = <<>>

\* The instruction list without the path-node ids that are not in the table.
ResolvedNodesOnly(instructions) ==
  LET resolves(nodeId) == getPointById(nodeId) # None
  IN  [k \in 1..Len(instructions) |->
         [instructions[k] EXCEPT !.path_nodes = SelectSeq(@, resolves)]]

\* C14: materialization keeps the instruction list (same length, and the
\* same id, target, path nodes and text at every index); an instruction
\* whose target id is not in the table has no cumulativeDistanceToTarget
\* afterwards; and the path is the one the list gives without its unresolved
\* path-node ids.
C14_InstructionsPreserved ==
  [][lastEvent' = "materialize" =>
       /\ Len(pathInstructions') = Len(pathInstructions)
       /\ \A k \in 1..Len(pathInstructions) :
            /\ pathInstructions'[k].id = pathInstructions[k].id
            /\ pathInstructions'[k].to = pathInstructions[k].to
            /\ pathInstructions'[k].path_nodes = pathInstructions[k].path_nodes
            /\ pathInstructions'[k].text = pathInstructions[k].text
            /\ pathInstructions'[k].hindiText = pathInstructions[k].hindiText
            /\ getPointById(pathInstructions[k].to) = None
                 => pathInstructions'[k].cumulativeDistanceToTarget = None
       /\ pathPointsForMap'
            = generatePathPointsForMap(ResolvedNodesOnly(pathInstructions),
                                       selectedEntryGateId)]_vars

\* A list was materialized in which one instruction has a target that is
\* not in the table, another a target that is, and one an unresolved path
\* node.
C14_Witness ==
  /\ lastEvent = "materialize"
  /\ pathPointsForMap # <<>>
  /\ \E k \in 1..Len(pathInstructions) :
       /\ getPointById(pathInstructions[k].to) = None
       /\ pathInstructions[k].cumulativeDistanceToTarget = None
  /\ \E k \in 1..Len(pathInstructions) :
       /\ pathInstructions[k].cumulativeDistanceToTarget # None
       /\ \E i \in 1..Len(pathInstructions[k].path_nodes) :
            getPointById(pathInstructions[k].path_nodes[i]) = None

\* The ids an instruction list names, in order: per instruction its path
\* nodes, then its target.
RECURSIVE NamedIds(_)
NamedIds(instructions) ==
  IF instructions = <<>> THEN <<>>
  ELSE Head(instructions).path_nodes \o <<Head(instructions).to>>
       \o NamedIds(Tail(instructions))

PathIds == [i \in 1..Len(pathPointsForMap) |-> pathPointsForMap[i].id]

GateAPlatform1Ids ==
  << "gate-a", "node-ga-1", "node-ga-2", "node-ga-wh-1", "waiting-hall",
     "node-wh-e1-1", "escalator-1", "node-e1-p1-1", "node-e1-p1-2",
     "platform-1" >>

\* The state holds the materialization of this authored input.
IsAuthored(input) ==
  /\ selectedEntryGateId = input.gate
  /\ Len(pathInstructions) = Len(input.instructions)
  /\ \A k \in 1..Len(pathInstructions) :
       /\ pathInstructions[k].id = input.instructions[k].id
       /\ pathInstructions[k].text = input.instructions[k].text
       /\ pathInstructions[k].to = input.instructions[k].to
       /\ pathInstructions[k].path_nodes = input.instructions[k].path_nodes

\* C16: the materialized path of each authored route is its gate followed
\* by every path node and target the instructions name, none skipped; for
\* gate-a and platform-1 these are the 10 listed points.
C16_AuthoredPathsComplete ==
  lastEvent = "materialize" =>
    \A input \in AuthoredInputs :
      IsAuthored(input) =>
        /\ PathIds = <<Val(input.gate)>> \o NamedIds(input.instructions)
        /\ (input.instructions = paths["gate-a-platform-1"]
              => /\ input.gate = Some("gate-a")
                 /\ PathIds = GateAPlatform1Ids)

\* The route of gate-a to platform-1 is materialized.
C16_Witness ==
  /\ lastEvent = "materialize"
  /\ selectedEntryGateId = Some("gate-a")
  /\ IsAuthored([gate |-> Some("gate-a"),
                 instructions |-> paths["gate-a-platform-1"]])
  /\ Len(pathPointsForMap) = 10

\* C15: on the route of gate-a to platform-1 a fresh start shows instruction
\* index 0, the index is 3 once the accumulator has passed 140 m, and the
\* run is completed with the accumulator at exactly 140 m.
C15_Scenario140 ==
  IsAuthored([gate |-> Some("gate-a"),
              instructions |-> paths["gate-a-platform-1"]])
    => /\ (lastEvent = "start" /\ totalDistanceTraveledRef = 0)
            => (currentInstructionIdxRef = 0 /\ currentInstructionIndex = 0)
       /\ totalDistanceTraveledRef > 14000 => currentInstructionIdxRef = 3
       /\ (lastEvent = "tick" /\ ~isSimulating)
            => totalDistanceTraveledRef = 14000
       /\ totalDistanceTraveledRef <= 14000

\* C17: a gate selection with a PNR loaded gives, when the key
\* "<gateId>-<destinationPlatformId>" is authored, a non-empty route and no
\* error message; when it is not, an empty route and path, no position and
\* the no-path-found message.  A start request on an empty path does nothing.
C17_GateSelectionByKey ==
  [][/\ (lastEvent' = "gateSelect" /\ pnrDetails # None) =>
          LET pathKey == Val(selectedEntryGateId') \o "-"
                         \o Val(pnrDetails).destinationPlatformId
          IN  IF pathKey \in DOMAIN paths
              THEN /\ Len(pathInstructions') = Len(paths[pathKey])
                   /\ pathInstructions' # <<>>
                   /\ pathPointsForMap' # <<>>
                   /\ error' = None
              ELSE /\ pathInstructions' = <<>>
                   /\ pathPointsForMap' = <<>>
                   /\ userPosition' = None
                   /\ error' = Some(NoPathFoundMessage)
                   /\ pnrDetails' = pnrDetails
     /\ (lastEvent' = "start" /\ pathPointsForMap = <<>>) =>
          /\ intervals' = {}
          /\ ~isSimulating'
          /\ announced' = <<>>
          /\ UNCHANGED << error, pathPointsForMap, userPosition >>]_vars

\* A start request after the selection of a point without an authored route.
C17_Witness ==
  /\ lastEvent = "start"
  /\ pnrDetails # None
  /\ selectedEntryGateId # None
  /\ error = Some(NoPathFoundMessage)
  /\ pathPointsForMap = <<>>
  /\ intervals = {}

\* C18: a lookup of "1234567890" selects the record of platform-1; a lookup
\* of a string of the table selects the record with that PNR; a lookup of
\* any other string, a prefix or padded variant included, selects no record
\* and sets the PNR-not-found message.
C18_ExactLookup ==
  [][\A pnr \in LookupInputs :
       PNRLookup(pnr) =>
         /\ pnr = "1234567890" =>
              /\ pnrDetails' # None
              /\ Val(pnrDetails').destinationPlatformId = "platform-1"
         /\ (\E i \in 1..Len(mockPNRData) : mockPNRData[i].pnr = pnr) =>
              /\ pnrDetails' # None
              /\ Val(pnrDetails').pnr = pnr
              /\ error' = None
         /\ (\A i \in 1..Len(mockPNRData) : mockPNRData[i].pnr # pnr) =>
              /\ pnrDetails' = None
              /\ error' = Some(PnrNotFoundMessage)]_vars

\* A lookup missed after a record and a gate had been selected.
C18_Witness ==
  /\ lastEvent = "pnrLookup"
  /\ pnrDetails = None
  /\ error = Some(PnrNotFoundMessage)
  /\ selectedEntryGateId # None

\* C19: interpolating between a coordinate and itself gives that coordinate
\* for every fraction; fraction 0 gives the start, and fraction 1 the end.
C19_InterpolationIdentities ==
  [][\A start \in FloatLatLngs, end \in FloatLatLngs, fraction \in Fractions :
       Interpolate(start, end, fraction) =>
         /\ start = end => userPosition' = Some(start)
         /\ fraction.num = 0 => userPosition' = Some(start)
         /\ fraction.num = fraction.den => userPosition' = Some(end)]_vars

\* C21: after a tick that does not end the run and finds a segment, the
\* bearing is present and is the bearing of the segment that contains the
\* accumulator.
C21_BearingAfterTick ==
  (/\ lastEvent = "tick"
   /\ isSimulating
   /\ SegmentsContaining(pathPointsForMap, totalDistanceTraveledRef) # {})
    => userBearing
         = Some(SegmentBearing(pathPointsForMap,
                               FirstSegment(pathPointsForMap,
                                            totalDistanceTraveledRef)))

\* C22: after a position update with live location on, the position is the
\* delivered coordinate; the bearing is the bearing from the previous
\* position to it when there was a previous position, and absent otherwise.
C22_BearingAfterPositionUpdate ==
  [][lastEvent' = "positionUpdate" =>
       /\ liveLocationEnabled'
       /\ userPosition' # None
       /\ userPosition' = actualUserLatLng'
       /\ Val(userPosition') \in LiveFixes
       /\ IF userPosition # None
          THEN userBearing'
                 = Some(calculateBearing(Val(userPosition).lat,
                                         Val(userPosition).lng,
                                         Val(userPosition').lat,
                                         Val(userPosition').lng))
          ELSE userBearing' = None]_vars

\* C23: when the completing tick ends, the destination-reached message is
\* the utterance the announcer holds.
C23_DestinationStillAnnounced ==
  (/\ lastEvent = "tick"
   /\ ~isSimulating
   /\ Len(announced) = 1)
    => utterance = Some(announced[1])

\* The current instruction has no target distance.
TargetUnset(idx) ==
  /\ idx < Len(pathInstructions)
  /\ pathInstructions[idx + 1].cumulativeDistanceToTarget = None

\* C24: while the current instruction has no target distance, a tick leaves
\* the internal and the displayed instruction index alone and announces no
\* instruction, whatever the accumulator; the only announcement such a tick
\* can make is the destination message of the tick that ends the run at the
\* total length.
C24_UnsetTargetNeverAdvances ==
  [][(lastEvent' = "tick" /\ TargetUnset(currentInstructionIdxRef)) =>
       /\ currentInstructionIdxRef' = currentInstructionIdxRef
       /\ currentInstructionIndex' = currentInstructionIndex
       /\ TargetUnset(currentInstructionIdxRef')
       /\ IF isSimulating'
          THEN announced' = <<>>
          ELSE /\ totalDistanceTraveledRef' = TotalLength
               /\ simulationIntervalRef' = None
               /\ announced'
                    = << [text |-> DestinationMessage(pnrDetails, language),
                          lang |-> language] >>]_vars

\* A run has ended at the total length with the index still at the
\* instruction without a target distance, although the accumulator is past
\* the target distance of the instruction after it.
C24_Witness ==
  /\ lastEvent = "tick"
  /\ ~isSimulating
  /\ totalDistanceTraveledRef = TotalLength
  /\ TargetUnset(currentInstructionIdxRef)
  /\ currentInstructionIdxRef + 1 < Len(pathInstructions)
  /\ pathInstructions[currentInstructionIdxRef + 2].cumulativeDistanceToTarget
       # None
  /\ totalDistanceTraveledRef
       >= Val(pathInstructions[currentInstructionIdxRef + 2]
                .cumulativeDistanceToTarget)

\* The cumulative distances along the path never decrease.
NonDecreasing(points) ==
  \A i \in 1..(Len(points) - 1) :
    points[i].cumulativeDistance <= points[i + 1].cumulativeDistance

\* C25: on a path whose cumulative distances never decrease, a tick that
\* does not end the run chooses a segment, the chosen segment i is the
\* lowest-index one with cumulative[i] <= accumulator <= cumulative[i+1],
\* the fraction is (accumulator - cumulative[i]) over the segment length, or
\* 0 for a segment of zero length, it lies within [0, 1], and the position
\* published is the interpolation between the segment's endpoints at that
\* fraction.
C25_SegmentAndFraction ==
  [][(/\ lastEvent' = "tick"
      /\ isSimulating'
      /\ NonDecreasing(pathPointsForMap)) =>
       LET points == pathPointsForMap
           d == totalDistanceTraveledRef'
           containing ==
             {j \in 1..(Len(points) - 1) :
                /\ points[j].cumulativeDistance <= d
                /\ d <= points[j + 1].cumulativeDistance}
           i == FirstSegment(points, d)
           length == points[i + 1].cumulativeDistance
                     - points[i].cumulativeDistance
           num == IF length > 0 THEN d - points[i].cumulativeDistance ELSE 0
           den == IF length > 0 THEN length ELSE 1
       IN  /\ containing # {}
           /\ i \in containing
           /\ \A j \in containing : i <= j
           /\ 0 <= num
           /\ num <= den
           /\ userPosition'
                = Some(getIntermediateLatLng(points[i].latLng,
                                             points[i + 1].latLng, num, den))]_vars

\* A tick has left the accumulator exactly on a boundary between segments,
\* one of them of zero length: three segments contain it.
C25_Witness ==
  /\ lastEvent = "tick"
  /\ isSimulating
  /\ NonDecreasing(pathPointsForMap)
  /\ Cardinality(SegmentsContaining(pathPointsForMap,
                                    totalDistanceTraveledRef)) = 3
  /\ \E i \in SegmentsContaining(pathPointsForMap, totalDistanceTraveledRef) :
       pathPointsForMap[i].cumulativeDistance
         = pathPointsForMap[i + 1].cumulativeDistance

\* C26: on an undisturbed run every tick adds one step to the accumulator
\* and ends the run exactly when that reaches the total length, whatever the
\* instruction index, the target distances or the segment found; and a run
\* that has started eventually ends with the accumulator at the total
\* length and no timer left.
C26_RunTerminates ==
  /\ [][lastEvent' = "tick" =>
          IF totalDistanceTraveledRef + distanceToAdvance >= TotalLength
          THEN /\ ~isSimulating'
               /\ totalDistanceTraveledRef' = TotalLength
          ELSE /\ isSimulating'
               /\ totalDistanceTraveledRef'
                    = totalDistanceTraveledRef + distanceToAdvance]_vars
  /\ isSimulating ~> (/\ ~isSimulating
                      /\ intervals = {}
                      /\ simulationIntervalRef = None
                      /\ totalDistanceTraveledRef = TotalLength)

\* A run has ended on the path that comes back to the gate: its cumulative
\* distances decrease, so the first ticks of the run found no segment.
C26_Witness ==
  /\ lastEvent = "tick"
  /\ ~isSimulating
  /\ intervals = {}
  /\ totalDistanceTraveledRef = TotalLength
  /\ ~NonDecreasing(pathPointsForMap)
  /\ SegmentsContaining(pathPointsForMap, distanceToAdvance) = {}

\* C27: at most one interval timer exists, it is the one the handle names,
\* and isSimulating is true exactly when the handle is set -- also after the
\* start handler has been called twice from one render.  (A component that
\* has been removed has no state to speak of.)
C27_OneTimer ==
  lastEvent # "unmount" =>
    /\ Cardinality(intervals) <= 1
    /\ isSimulating <=> simulationIntervalRef # None
    /\ \A iv \in intervals : simulationIntervalRef = Some(iv.id)

\* Lines 766-772: the list shows its destination-reached entry.
DestinationEntryShown ==
  /\ Len(pathInstructions) > 0
  /\ currentInstructionIndex >= Len(pathInstructions)

\* C28: on each authored route the target distance of the last instruction
\* is the total path length, the internal and the displayed instruction
\* index stay below the number of instructions in every state, the state
\* after the completing tick included, and the list never shows its
\* destination-reached entry.
C28_IndexBelowCount ==
  /\ Len(pathInstructions) > 0
  /\ pathInstructions[Len(pathInstructions)].cumulativeDistanceToTarget
       = Some(TotalLength)
  /\ currentInstructionIdxRef <= Len(pathInstructions) - 1
  /\ currentInstructionIndex <= Len(pathInstructions) - 1
  /\ ~DestinationEntryShown

\* A run on the route from gate-b to platform 3 has ended at the total
\* length with the index at the last instruction.
C28_Witness ==
  /\ lastEvent = "tick"
  /\ ~isSimulating
  /\ totalDistanceTraveledRef = TotalLength
  /\ selectedEntryGateId = Some("gate-b")
  /\ Val(pnrDetails).destinationPlatformId = "platform-3"
  /\ currentInstructionIdxRef = Len(pathInstructions) - 1
  /\ currentInstructionIndex = Len(pathInstructions) - 1

\* What a run started in language lang can say: its instructions and its
\* destination message, in that language's text variant and with its tag.
Announcements(lang) ==
  {[text |-> InstructionText(pathInstructions, i, lang), lang |-> lang] :
     i \in 0..(Len(pathInstructions) - 1)}
  \cup {[text |-> DestinationMessage(pnrDetails, lang), lang |-> lang]}

\* C29: a start that takes effect gives the timer the language selected at
\* that moment and announces in it; using the language switch changes the
\* selected language and nothing of a running simulation, its timer
\* included; and everything a tick announces, instruction or destination
\* message, is in the language its timer was started with.
C29_LanguageFixedAtStart ==
  [][/\ (lastEvent' = "start" /\ ~isSimulating /\ isSimulating') =>
          /\ \A iv \in intervals' : iv.language = language
          /\ \A k \in 1..Len(announced') :
               announced'[k] \in Announcements(language)
     /\ lastEvent' = "toggleLanguage" =>
          /\ language' # language
          /\ intervals' = intervals
          /\ simulationIntervalRef' = simulationIntervalRef
          /\ isSimulating' = isSimulating
          /\ utterance' = utterance
          /\ announced' = <<>>
     /\ lastEvent' = "tick" =>
          \A k \in 1..Len(announced') :
            \E iv \in intervals :
              announced'[k] \in Announcements(iv.language)]_vars

\* A run started in English has ended and announced the destination in
\* English although Hindi had been selected while it ran.
C29_Witness ==
  /\ lastEvent = "tick"
  /\ ~isSimulating
  /\ language = "hi-IN"
  /\ announced = << [text |-> DestinationMessage(pnrDetails, "en-US"),
                     lang |-> "en-US"] >>

\* The tick about to be taken ends the run.
CompletingTick ==
  /\ lastEvent' = "tick"
  /\ totalDistanceTraveledRef + distanceToAdvance >= TotalLength

\* The point of the final segment at distance d along the path.
OnFinalSegment(d) ==
  Some(InterpolatedPosition(pathPointsForMap, Len(pathPointsForMap) - 1, d))

\* The last point of the path.
FinalPoint == Some(pathPointsForMap[Len(pathPointsForMap)].latLng)

====
